---- MODULE Spec2Model ----
(***************************************************************************)
(* AgentK8s (src/app.py): the report compiler AgentK8s.generate_report,    *)
(* the documentation lookup AgentK8s.search_documentation and the          *)
(* Streamlit script main() that drives them.                               *)
(*                                                                         *)
(* Lengths are in millimetres, rounded to integers (every cursor position  *)
(* the code produces is a multiple of 5 mm away from the top margin).      *)
(* A text is the sequence of its characters; only three characters are     *)
(* told apart: " " (blank), "\n" (line break) and "x" (anything printable).*)
(***************************************************************************)
EXTENDS Integers, Sequences, FiniteSets, TLC

VARIABLES
    run,          \* the frame of the current / last generate_report call
    agent,        \* st.session_state.agent: [bedrock, ares_tool]
    initialized,  \* st.session_state.initialized
    widgets,      \* the text areas' contents, by pillar key and field
    edits,        \* how many times the user has edited a text area
    out,          \* what the last script run showed
    lookup        \* the documentation lookup: backend answer and docs

vars == <<run, agent, initialized, widgets, edits, out, lookup>>

-----------------------------------------------------------------------------
(* Bounds of the model *)

\* lines of the long sample finding (more than one page holds)
LongLines == 30
\* pillars in a snapshot that is not the complete catalog
MaxSnapshotPillars == 2
\* items in the list the documentation backend answers with
MaxResults == 2
\* text-area edits in one session
MaxEdits == 1

-----------------------------------------------------------------------------
(* Texts *)

IsSpace(c) == c \in {" ", "\n", "\t"}

\* str.strip(): the text between its first and its last printable character
Strip(s) ==
    LET printable == {k \in DOMAIN s : ~IsSpace(s[k])}
    IN  IF printable = {} THEN <<>>
        ELSE SubSeq(s, CHOOSE k \in printable : \A j \in printable : k <= j,
                       CHOOSE k \in printable : \A j \in printable : k >= j)

CountNewlines(s) == Cardinality({k \in DOMAIN s : s[k] = "\n"})

\* The cells FPDF.multi_cell prints for a text: one trailing line break is
\* dropped, every other line break ends a cell, and the last chunk is always
\* printed (so the empty text prints one empty cell).  Word wrapping is
\* folded into the text: a wrapped line is written with a line break.
MultiCellLines(s) ==
    LET t == IF s # <<>> /\ s[Len(s)] = "\n" THEN SubSeq(s, 1, Len(s) - 1) ELSE s
    IN  1 + CountNewlines(t)

\* n lines of printable text
LinesText(n) == [k \in 1..(2 * n - 1) |-> IF k % 2 = 1 THEN "x" ELSE "\n"]

EmptyText == <<>>
BlankText == <<" ", "\n", " ">>
OkText    == <<"x", "x">>
PaddedText == <<" ", "x", "\n">>
LongText  == LinesText(LongLines)

\* A finding as the caller passes it: a str, or something that is no str.
Str(s)  == [str |-> TRUE, chars |-> s]
NotStr  == [str |-> FALSE, chars |-> <<>>]

-----------------------------------------------------------------------------
(* The fixed catalogs *)

\* keys of `pillars` (main) and DEFAULT_VALUES; "#" stands for the emoji prefix
PillarKeys ==
    << "# Cluster Health", "# Cost Optimization", "# Security",
       "# Monitoring", "# CI/CD", "# Others" >>

PillarKeySet == {PillarKeys[k] : k \in 1..Len(PillarKeys)}

Fields(p) ==
    CASE p = "# Cluster Health" ->
           <<"Cluster Status", "Node Health", "Pod Scheduling Issues">>
      [] p = "# Cost Optimization" ->
           <<"Resource Utilization", "Cost Allocation", "Optimization Opportunities">>
      [] p = "# Security" ->
           <<"IAM Configuration", "Secret Management", "Network Policies">>
      [] p = "# Monitoring" ->
           <<"Monitoring Tools", "Alert Configuration", "Metric Collection">>
      [] p = "# CI/CD" ->
           <<"Pipeline Setup", "Deployment Strategy", "Rollback Process">>
      [] p = "# Others" ->
           <<"EKS Version", "Cluster Architecture", "Special Requirements">>
      [] OTHER -> <<>>

FieldSet(p) == {Fields(p)[k] : k \in 1..Len(Fields(p))}

\* DEFAULT_VALUES, each text by the lines it prints on a 196 mm wide page:
\* "Cluster Status" is one sentence that wraps to 3 lines, "Node Health" has
\* 5 lines of which the last wraps, "Pod Scheduling Issues" has 4 lines and
\* every other default has 5 short lines.
DEFAULT_VALUES(p, f) ==
    CASE f = "Cluster Status"        -> LinesText(3)
      [] f = "Node Health"           -> LinesText(6)
      [] f = "Pod Scheduling Issues" -> LinesText(4)
      [] f \in FieldSet(p)           -> LinesText(5)
      [] OTHER                       -> EmptyText

\* pillar_titles.get(pillar, pillar)
pillar_titles(p) ==
    CASE p = "# Cluster Health"    -> "Cluster Health"
      [] p = "# Cost Optimization" -> "Cost Optimization"
      [] p = "# Security"          -> "Security"
      [] p = "# Monitoring"        -> "Monitoring"
      [] p = "# CI/CD"             -> "CI/CD"
      [] p = "# Others"            -> "Others"
      [] OTHER                     -> p

best_practices == <<"Security", "Cost Optimization", "Operations", "Networking">>

Rec(r, p) == [rec |-> r, priority |-> p]

\* the recommendation catalog, timeframe by timeframe
timeframes ==
    << [timeframe |-> "Short Term (3 months)",
        recommendations |->
          << Rec("Implement automated node health checks", "High"),
             Rec("Configure cluster autoscaling", "High"),
             Rec("Enable container vulnerability scanning", "Critical") >>],
       [timeframe |-> "Medium Term (6 months)",
        recommendations |->
          << Rec("Implement GitOps practices", "Medium"),
             Rec("Set up cross-region disaster recovery", "High"),
             Rec("Implement cost allocation tags", "Medium") >>],
       [timeframe |-> "Long Term (>6 months)",
        recommendations |->
          << Rec("Migrate to newer EKS version", "Medium"),
             Rec("Implement service mesh", "Low"),
             Rec("Set up multi-cluster management", "Medium") >>] >>

Black == <<0, 0, 0>>
Blue  == <<0, 0, 255>>

\* priority_colors.get(priority, (0, 0, 0))
priority_colors(p) ==
    CASE p = "Critical" -> <<255, 0, 0>>
      [] p = "High"     -> <<255, 165, 0>>
      [] p = "Medium"   -> <<255, 255, 0>>
      [] p = "Low"      -> <<0, 255, 0>>
      [] OTHER          -> Black

Priorities == {"Critical", "High", "Medium", "Low"}

-----------------------------------------------------------------------------
(* The document under construction: class PDF(FPDF), format Letter *)

\* FPDF's default margin, 28.35 pt = 10 mm: the cursor's start on a page
TopMargin == 10
\* Letter is 279.4 mm high and the bottom margin for the automatic page
\* break is 2 margins: a cell that would end below 259.4 mm breaks the page
PageBreakTrigger == 259
\* the 700 x 400 chart drawn 190 mm wide is 108.6 mm high
ChartHeight == 109
\* the wrapped lines of the executive summary paragraph
SummaryLines == 3

PdfOutput == "eks_review_report.pdf"
None == "None"

\* PDF(): no page yet
NewPDF == [page |-> 0, y |-> 0, text_color |-> Black, blocks |-> <<>>]

Block(p, kind, text, tag, lines) ==
    [kind |-> kind, page |-> p.page, text |-> text, tag |-> tag,
     color |-> p.text_color, lines |-> lines]

Emit(p, kind, text, tag, lines) ==
    [p EXCEPT !.blocks = Append(@, Block(p, kind, text, tag, lines))]

\* PDF.footer: the page number, printed in the current text colour
footer(p) == Emit(p, "footer", "Page", "", 1)

\* FPDF.add_page: closes the page in progress with its footer
add_page(p) ==
    LET closed == IF p.page > 0 THEN footer(p) ELSE p
    IN  [closed EXCEPT !.page = @ + 1, !.y = TopMargin]

\* the automatic page break every cell and image starts with
BreakIfNeeded(p, h) == IF p.y + h > PageBreakTrigger THEN add_page(p) ELSE p

\* FPDF.cell(0, h, text, 0, 1, ...)
cell(p, h, kind, text, tag) ==
    LET cellTop == BreakIfNeeded(p, h)
    IN  [Emit(cellTop, kind, text, tag, 1) EXCEPT !.y = cellTop.y + h]

\* how many cells of height h still fit on the page below the cursor
Fit(p, h) == IF p.y + h > PageBreakTrigger THEN 0 ELSE (PageBreakTrigger - p.y) \div h

\* the cursor after n more cells of height h, each one breaking the page when
\* it does not fit (taken a page at a time)
RECURSIVE MoreLines(_, _, _)
MoreLines(p, h, n) ==
    IF n <= Fit(p, h) THEN [p EXCEPT !.y = @ + n * h]
    ELSE MoreLines(add_page(p), h, n - Fit(p, h))

\* FPDF.multi_cell(0, h, text): one cell per line; the paragraph is one block,
\* on the page its first line is printed on
multi_cell(p, h, kind, text, tag, lines) ==
    LET paraTop == BreakIfNeeded(p, h)
    IN  MoreLines([Emit(paraTop, kind, text, tag, lines) EXCEPT !.y = paraTop.y + h], h, lines - 1)

\* FPDF.ln(h)
ln(p, h) == [p EXCEPT !.y = @ + h]

\* FPDF.set_text_color
set_text_color(p, c) == [p EXCEPT !.text_color = c]

\* FPDF.image(path, x=10, y=None, w=190)
image(p, h) ==
    LET imageTop == BreakIfNeeded(p, h)
    IN  [Emit(imageTop, "image", "risk_chart.png", "", 1) EXCEPT !.y = imageTop.y + h]

\* the shaded section header
SectionHeader(p, title) == cell(p, 10, "header", title, "")

-----------------------------------------------------------------------------
(* AgentK8s.generate_report, phase by phase.  A frame holds the call's      *)
(* arguments, the files on disk, the PDF, and the external operation that  *)
(* raised, if one did (fault: "render" for fig.write_image, "embed" for    *)
(* pdf.image, "write" for pdf.output).                                     *)

NewDisk == [chart |-> FALSE, report |-> FALSE]

\* the call of generate_report(inputs): the frame before its first statement
NewFrame(inputs, tf, disk) ==
    [pc |-> "Idle", inputs |-> inputs, tf |-> tf, fault |-> "none",
     disk |-> disk, pdf |-> NewPDF, phases |-> <<>>, i |-> 0,
     result |-> None, error |-> FALSE, wrote |-> FALSE]

Phase(name, k) == [phase |-> name, i |-> k]

Enter(f, name, k) == [f EXCEPT !.pc = name, !.phases = Append(@, Phase(name, k))]

\* faulty variant: the handler returns the path although the call failed
FailedWithPath(f) == [f EXCEPT !.pc = "Failed", !.result = PdfOutput, !.error = TRUE]

\* except Exception: st.error(...); return None
Failed(f) == [f EXCEPT !.pc = "Failed", !.result = None, !.error = TRUE]

Returned(f) == f.pc \in {"Finalized", "Failed"}

\* pdf.add_page() ... the title and the date
TitlePage(f) ==
    LET titled == cell(add_page(f.pdf), 20, "title", "EKS Operational Review Report", "")
        dated == cell(ln(titled, 10), 10, "text", "Generated on", "")
    IN  [Enter(f, "TitlePage", 0) EXCEPT !.pdf = ln(dated, 5)]

\* the executive summary, on the title page
Summary(f) ==
    LET sumHead == SectionHeader(f.pdf, "Executive Summary")
        sumPara == multi_cell(sumHead, 10, "para", "Executive Summary", "", SummaryLines)
    IN  [Enter(f, "Summary", 0) EXCEPT !.pdf = ln(sumPara, 5)]

\* the chart page: fig.write_image, pdf.image, os.remove
RiskChart(f) ==
    LET entered  == Enter(f, "RiskChart", 0)
        riskHead == SectionHeader(add_page(f.pdf), "Risk Assessment Overview")
    IN  IF f.fault = "render"
        THEN Failed([entered EXCEPT !.pdf = riskHead])
        ELSE IF f.fault = "embed"
        THEN Failed([entered EXCEPT !.pdf = riskHead, !.disk.chart = TRUE])
        ELSE [entered EXCEPT !.pdf = ln(image(riskHead, ChartHeight), 10),
                       !.disk.chart = FALSE]

\* for field, content in data.items(): ...   (None: content.strip() raised)
RECURSIVE RenderFields(_, _)
RenderFields(p, data) ==
    IF data = <<>> THEN [ok |-> TRUE, pdf |-> p]
    ELSE LET item == Head(data)
         IN  IF ~item.content.str THEN [ok |-> FALSE, pdf |-> p]
             ELSE IF Strip(item.content.chars) # <<>>
             THEN LET labelled == cell(p, 10, "label", item.field, "")
                      written == multi_cell(labelled, 10, "finding", item.field, "",
                                       MultiCellLines(item.content.chars))
                  IN  RenderFields(ln(written, 5), Tail(data))
             ELSE RenderFields(ln(p, 5), Tail(data))

\* faulty variant: the pillar section goes on after the previous one, without add_page
PillarSectionSamePage(f) ==
    LET samePage == RenderFields(
                        SectionHeader(f.pdf, pillar_titles(f.inputs[f.i + 1].pillar)),
                        f.inputs[f.i + 1].data)
        appended == [Enter(f, "PillarSection", f.i + 1) EXCEPT
                        !.i = f.i + 1, !.pdf = samePage.pdf]
    IN  IF samePage.ok THEN appended ELSE Failed(appended)

\* one turn of: for pillar, data in inputs.items()
PillarSection(f) ==
    LET nextI  == f.i + 1
        entry  == f.inputs[nextI]
        pillarHead == SectionHeader(add_page(f.pdf), pillar_titles(entry.pillar))
        rendered  == RenderFields(pillarHead, entry.data)
        section  == [Enter(f, "PillarSection", nextI) EXCEPT !.i = nextI, !.pdf = rendered.pdf]
    IN  IF rendered.ok THEN section ELSE Failed(section)

RECURSIVE RenderPractices(_, _)
RenderPractices(p, practices) ==
    IF practices = <<>> THEN p
    ELSE LET cat == cell(p, 10, "category", Head(practices), "")
             link == cell(set_text_color(cat, Blue), 10, "link", Head(practices), "")
             desc == multi_cell(set_text_color(link, Black), 10, "para", Head(practices), "", 1)
         IN  RenderPractices(ln(desc, 5), Tail(practices))

\* Best Practices & References
References(f) ==
    LET refHead == SectionHeader(add_page(f.pdf), "Best Practices & References")
    IN  [Enter(f, "References", 0) EXCEPT !.pdf = RenderPractices(refHead, best_practices)]

\* faulty variant: the colour is set once, from the timeframe's first recommendation
RenderRecsStale(p, recs) ==
    LET paint[n \in 0..Len(recs)] ==
            IF n = 0 THEN set_text_color(p, priority_colors(recs[1].priority))
            ELSE multi_cell(paint[n - 1], 10, "rec", recs[n].rec, recs[n].priority, 1)
    IN  paint[Len(recs)]

\* for rec in recommendations: the line "[priority] - rec" in its colour
RECURSIVE RenderRecs(_, _)
RenderRecs(p, recs) ==
    IF recs = <<>> THEN p
    ELSE LET first  == Head(recs)
             coloured == set_text_color(p, priority_colors(first.priority))
         IN  RenderRecs(multi_cell(coloured, 10, "rec", first.rec, first.priority, 1), Tail(recs))

\* faulty variant: the colour is left as the timeframe's last line set it
RenderTimeframesNoReset(p, tfs) ==
    LET bucketDone[n \in 0..Len(tfs)] ==
            IF n = 0 THEN p
            ELSE ln(RenderRecs(cell(bucketDone[n - 1], 10, "timeframe", tfs[n].timeframe, ""),
                               tfs[n].recommendations), 5)
    IN  bucketDone[Len(tfs)]

\* for timeframe, recommendations in timeframes.items()
RECURSIVE RenderTimeframes(_, _)
RenderTimeframes(p, tfs) ==
    IF tfs = <<>> THEN p
    ELSE LET bucket  == Head(tfs)
             tfHead == cell(p, 10, "timeframe", bucket.timeframe, "")
             tfRecs == RenderRecs(tfHead, bucket.recommendations)
         IN  RenderTimeframes(ln(set_text_color(tfRecs, Black), 5), Tail(tfs))

Recommendations(f) ==
    LET recHead == SectionHeader(add_page(f.pdf), "Recommendations")
    IN  [Enter(f, "Recommendations", 0) EXCEPT !.pdf = RenderTimeframes(recHead, f.tf)]

\* pdf.output(pdf_output): the last page's footer, then the file; return
Finalize(f) ==
    LET closedDoc == footer(f.pdf)
    IN  IF f.fault = "write"
        THEN Failed([f EXCEPT !.pdf = closedDoc, !.phases = Append(@, Phase("Finalized", 0))])
        ELSE [Enter(f, "Finalized", 0) EXCEPT
                 !.pdf = closedDoc, !.disk.report = TRUE, !.wrote = TRUE,
                 !.result = PdfOutput]

PillarsLeft(f) == f.pc \in {"RiskChart", "PillarSection"} /\ f.i < Len(f.inputs)
\* faulty variant: the loop over the pillars may end before the last entry
PillarsDoneEarly(f) == f.pc \in {"RiskChart", "PillarSection"}

PillarsDone(f) == f.pc \in {"RiskChart", "PillarSection"} /\ f.i = Len(f.inputs)

-----------------------------------------------------------------------------
(* Assessment snapshots: the dict generate_report is called with, as the    *)
(* sequence of its items (a dict keeps insertion order)                     *)

Item(f, c) == [field |-> f, content |-> c]

Fills == {"default", "empty", "blank", "first", "long", "partial", "invalid"}

\* the fields of pillar p, filled the way `fill` names
FillData(p, fill) ==
    LET fs == Fields(p)
        all(c) == [k \in 1..Len(fs) |-> Item(fs[k], c)]
        dflt   == [k \in 1..Len(fs) |-> Item(fs[k], Str(DEFAULT_VALUES(p, fs[k])))]
    IN  CASE fill = "default" -> dflt
          [] fill = "empty"   -> all(Str(EmptyText))
          [] fill = "blank"   -> all(Str(BlankText))
          [] fill = "first"   -> [all(Str(EmptyText)) EXCEPT ![1].content = Str(OkText)]
          [] fill = "long"    -> [dflt EXCEPT ![1].content = Str(LongText)]
          [] fill = "partial" -> <<Item(fs[1], Str(PaddedText))>>
          [] fill = "invalid" -> [dflt EXCEPT ![2].content = NotStr]

Snapshot(ks, fill) ==
    [k \in 1..Len(ks) |-> [pillar |-> ks[k], data |-> FillData(ks[k], fill)]]

IsInjective(s) == \A a, b \in DOMAIN s : s[a] = s[b] => a = b

\* the key orders of the snapshots: every pillar, in catalog order, and the
\* short ones, pillars missing and in any order
KeyOrders ==
    {PillarKeys} \cup
    {s \in UNION {[1..n -> PillarKeySet] : n \in 0..MaxSnapshotPillars} : IsInjective(s)}

Snapshots == {Snapshot(ks, fill) : ks \in KeyOrders, fill \in Fills}

DefaultSnapshot == Snapshot(PillarKeys, "default")

\* the catalog with the priority of recommendation r of timeframe t set to p
WithPriority(t, r, p) == [timeframes EXCEPT ![t].recommendations[r].priority = p]

CatalogVariants ==
    {WithPriority(t, r, p) :
        t \in DOMAIN timeframes, r \in 1..3, p \in Priorities}

-----------------------------------------------------------------------------
(* AgentK8s.search_documentation and the list main shows *)

BothKeys == {"title", "url"}

\* what the backend's list may hold: a str, a dict, anything else
StrItem(t) == [type |-> "str", keys |-> {}, title |-> t, url |-> ""]
DictItem(keys, t, u) ==
    [type |-> "dict", keys |-> keys,
     title |-> IF "title" \in keys THEN t ELSE "",
     url   |-> IF "url" \in keys THEN u ELSE ""]
OtherItem == [type |-> "other", keys |-> {}, title |-> "", url |-> ""]

SampleItems ==
    { StrItem("A"),
      DictItem(BothKeys, "B", "https://b"),
      DictItem({"title"}, "C", ""),
      DictItem({"url"}, "", "https://d"),
      OtherItem }

\* what self.ares_tool.run(query) does: it returns a list, returns something
\* that is no list, or raises
ListAnswer(items) == [kind |-> "list", items |-> items]
Answers ==
    {ListAnswer(items) : items \in UNION {[1..n -> SampleItems] : n \in 0..MaxResults}}
    \cup {[kind |-> "notlist", items |-> <<>>], [kind |-> "raise", items |-> <<>>]}

\* for result in results: ... processed_results.append(...)
RECURSIVE Process(_)
Process(results) ==
    IF results = <<>> THEN <<>>
    ELSE LET result == Head(results)
         IN  IF result.type = "str"
             THEN <<DictItem(BothKeys, result.title, "#")>> \o Process(Tail(results))
             ELSE IF result.type = "dict"
             THEN <<result>> \o Process(Tail(results))
             ELSE Process(Tail(results))

\* search_documentation(query): [docs, failed]
search_documentation(a, answer) ==
    IF a.ares_tool = None \/ answer.kind = "raise"
    THEN [docs |-> <<>>, failed |-> TRUE]
    ELSE IF answer.kind = "list"
    THEN [docs |-> Process(answer.items), failed |-> FALSE]
    ELSE [docs |-> <<>>, failed |-> FALSE]

\* every entry shown as a link
ShowDocAsLink(doc) ==
    [form |-> "link", title |-> doc.title, url |-> doc.url, keys |-> doc.keys]

\* for doc in docs: a link when the dict has title and url, str(doc) otherwise
ShowDoc(doc) ==
    IF doc.type = "dict" /\ "title" \in doc.keys /\ "url" \in doc.keys
    THEN [form |-> "link", title |-> doc.title, url |-> doc.url, keys |-> doc.keys]
    ELSE [form |-> "text", title |-> doc.title, url |-> doc.url, keys |-> doc.keys]

ShowDocs(docs) == [k \in DOMAIN docs |-> ShowDoc(docs[k])]

-----------------------------------------------------------------------------
(* The session and the page: main() *)

NoAgent    == [bedrock |-> None, ares_tool |-> None]
ReadyAgent == [bedrock |-> "client", ares_tool |-> "tool"]

Credentials == {"aws_access_key", "aws_secret_key", "ares_api_key", "openai_api_key"}

NoForm == [submitted |-> FALSE, complete |-> FALSE, bedrock |-> "skipped", ares |-> "skipped"]

\* a script run that has shown nothing yet
NoOutput == [messages |-> {}, form |-> NoForm, download |-> FALSE,
             displayed |-> <<>>, stage |-> "shown"]

NoLookup == [answer |-> ListAnswer(<<>>), docs |-> <<>>]

DefaultWidgets ==
    [p \in PillarKeySet |-> [f \in FieldSet(p) |-> DEFAULT_VALUES(p, f)]]

\* inputs[pillar] = pillar_inputs: every pillar and field of the catalog
InputsOf(w) ==
    [k \in DOMAIN PillarKeys |->
        [pillar |-> PillarKeys[k],
         data   |-> [j \in DOMAIN Fields(PillarKeys[k]) |->
                        Item(Fields(PillarKeys[k])[j],
                             Str(w[PillarKeys[k]][Fields(PillarKeys[k])[j]]))]]]

\* a script run before any call of generate_report: the locals of the last
\* run's handler are gone, the files it left are not
NoCall(f) == NewFrame(<<>>, timeframes, f.disk)

\* initialize_bedrock: the client is assigned only when boto3.client returns
initialize_bedrock(a, ok) == IF ok THEN [a EXCEPT !.bedrock = "client"] ELSE a

\* initialize_ares: the tool is assigned only when AresInternetTool() returns
initialize_ares(a, ok) == IF ok THEN [a EXCEPT !.ares_tool = "tool"] ELSE a

\* the main content shown to every session
CanGenerateUngated == TRUE

\* if not st.session_state.initialized: st.warning(...); return
CanGenerate == initialized

\* the rest of a script run in which no button of the main content is pressed
MainContent(o, init) ==
    IF init THEN o
    ELSE [o EXCEPT !.messages = @ \cup {"Please initialize the agent first"}]

\* the credentials form is submitted: the fields in `provided` are filled in,
\* and bedrockOk / aresOk say whether the two initialisations succeed
SubmitForm ==
    /\ out.stage = "shown"
    /\ \E provided \in SUBSET Credentials :
       \E bedrockOk \in (IF provided = Credentials THEN BOOLEAN ELSE {FALSE}) :
       \E aresOk \in (IF bedrockOk THEN BOOLEAN ELSE {FALSE}) :
         LET complete == provided = Credentials
             triedB   == complete
             triedA   == complete /\ bedrockOk
             agentB   == IF triedB THEN initialize_bedrock(agent, bedrockOk) ELSE agent
             agentA   == IF triedA THEN initialize_ares(agentB, aresOk) ELSE agentB
             success  == triedA /\ aresOk
             form     == [submitted |-> TRUE, complete |-> complete,
                          bedrock |-> IF ~triedB THEN "skipped"
                                      ELSE IF bedrockOk THEN "ok" ELSE "failed",
                          ares    |-> IF ~triedA THEN "skipped"
                                      ELSE IF aresOk THEN "ok" ELSE "failed"]
             msgs     == (IF ~complete THEN {"Please provide all required credentials"} ELSE {})
                         \cup (IF triedB /\ ~bedrockOk THEN {"Failed to initialize Bedrock"} ELSE {})
                         \cup (IF triedA /\ ~aresOk THEN {"Failed to initialize Ares"} ELSE {})
                         \cup (IF success THEN {"Successfully initialized!"} ELSE {})
         IN  /\ agent' = agentA
             /\ initialized' = (initialized \/ success)
             /\ out' = MainContent([NoOutput EXCEPT !.form = form, !.messages = msgs],
                                   initialized')
    /\ run' = NoCall(run)
    /\ lookup' = NoLookup
    /\ UNCHANGED <<widgets, edits>>

\* the texts the user types into a text area
EditTexts == {EmptyText, LongText}

\* the user changes a text area (they exist once the session is initialized)
EditField ==
    /\ out.stage = "shown"
    /\ CanGenerate
    /\ edits < MaxEdits
    /\ \E p \in PillarKeySet : \E f \in FieldSet(p) : \E t \in EditTexts :
         widgets' = [widgets EXCEPT ![p][f] = t]
    /\ edits' = edits + 1
    /\ out' = NoOutput
    /\ run' = NoCall(run)
    /\ lookup' = NoLookup
    /\ UNCHANGED <<agent, initialized>>

\* if st.button("Reset to Defaults"): ... st.experimental_rerun()
\* The text areas of this run exist already when their keys are assigned:
\* depending on the Streamlit release the assignment is taken, or refused
\* with an exception that ends the run before the rerun.
ResetToDefaults ==
    /\ out.stage = "shown"
    /\ CanGenerate
    /\ widgets' \in {DefaultWidgets, widgets}
    /\ out' = NoOutput
    /\ run' = NoCall(run)
    /\ lookup' = NoLookup
    /\ UNCHANGED <<agent, initialized, edits>>

\* in the session model the backend answers with at most one item
ShortAnswers == {a \in Answers : Len(a.items) <= 1}

\* if st.button("Generate Report"): the handler starts; the backend's answer
\* to the documentation query is the environment's
GenerateReportButton ==
    /\ out.stage = "shown"
    /\ CanGenerate
    /\ \E answer \in ShortAnswers : lookup' = [answer |-> answer, docs |-> <<>>]
    /\ out' = [NoOutput EXCEPT !.stage = "search"]
    /\ run' = NoCall(run)
    /\ UNCHANGED <<agent, initialized, widgets, edits>>

\* docs = st.session_state.agent.search_documentation("EKS best practices")
DoSearch ==
    /\ out.stage = "search"
    /\ LET found == search_documentation(agent, lookup.answer)
       IN  /\ lookup' = [lookup EXCEPT !.docs = found.docs]
           /\ out' = [out EXCEPT
                        !.stage = "invoke",
                        !.messages = IF found.failed
                                     THEN @ \cup {"Documentation search failed"} ELSE @]
    /\ UNCHANGED <<run, agent, initialized, widgets, edits>>

\* pdf_file = st.session_state.agent.generate_report(inputs)
DoInvoke ==
    /\ out.stage = "invoke"
    /\ run' = NewFrame(InputsOf(widgets), timeframes, run.disk)
    /\ out' = [out EXCEPT !.stage = "running"]
    /\ UNCHANGED <<agent, initialized, widgets, edits, lookup>>

-----------------------------------------------------------------------------
(* generate_report, statement block by statement block *)

Running == out.stage = "running"

DoTitlePage ==
    /\ Running /\ run.pc = "Idle"
    /\ run' = TitlePage(run)
    /\ UNCHANGED <<agent, initialized, widgets, edits, out, lookup>>

DoSummary ==
    /\ Running /\ run.pc = "TitlePage"
    /\ run' = Summary(run)
    /\ UNCHANGED <<agent, initialized, widgets, edits, out, lookup>>

\* fig.write_image or pdf.image may raise
DoRiskChart ==
    /\ Running /\ run.pc = "Summary"
    /\ \E fault \in {"none", "render", "embed"} :
         run' = RiskChart([run EXCEPT !.fault = fault])
    /\ UNCHANGED <<agent, initialized, widgets, edits, out, lookup>>

DoPillarSection ==
    /\ Running /\ PillarsLeft(run)
    /\ run' = PillarSection(run)
    /\ UNCHANGED <<agent, initialized, widgets, edits, out, lookup>>

DoReferences ==
    /\ Running /\ PillarsDone(run)
    /\ run' = References(run)
    /\ UNCHANGED <<agent, initialized, widgets, edits, out, lookup>>

DoRecommendations ==
    /\ Running /\ run.pc = "References"
    /\ run' = Recommendations(run)
    /\ UNCHANGED <<agent, initialized, widgets, edits, out, lookup>>

\* pdf.output may raise
DoFinalize ==
    /\ Running /\ run.pc = "Recommendations"
    /\ \E fault \in {"none", "write"} :
         run' = Finalize([run EXCEPT !.fault = fault])
    /\ UNCHANGED <<agent, initialized, widgets, edits, out, lookup>>

\* main, after generate_report returned: the error it reported, and
\* if pdf_file: st.download_button(...)
ShowReport(o, f) ==
    [o EXCEPT !.download = (f.result # None),
              !.messages = IF f.error THEN @ \cup {"Failed to generate report"} ELSE @,
              !.stage = "docs"]

DoShowReport ==
    /\ Running /\ Returned(run)
    /\ out' = ShowReport(out, run)
    /\ UNCHANGED <<run, agent, initialized, widgets, edits, lookup>>

\* if docs: st.subheader("Relevant Documentation"); for doc in docs: ...
DoShowDocs ==
    /\ out.stage = "docs"
    /\ out' = [out EXCEPT !.displayed = ShowDocs(lookup.docs), !.stage = "shown"]
    /\ UNCHANGED <<run, agent, initialized, widgets, edits, lookup>>

Report ==
    \/ DoTitlePage
    \/ DoSummary
    \/ DoRiskChart
    \/ DoPillarSection
    \/ DoReferences
    \/ DoRecommendations
    \/ DoFinalize
    \/ DoShowReport
    \/ DoShowDocs

-----------------------------------------------------------------------------
(* Spec: one call of generate_report in an initialized session, for every   *)
(* snapshot and every recommendation catalog of the model                   *)

Calls ==
    {NewFrame(snap, timeframes, NewDisk) : snap \in Snapshots}
    \cup {NewFrame(DefaultSnapshot, tf, NewDisk) : tf \in CatalogVariants}

Init ==
    /\ run \in Calls
    /\ agent = ReadyAgent
    /\ initialized = TRUE
    /\ widgets = DefaultWidgets
    /\ edits = 0
    /\ out = [NoOutput EXCEPT !.stage = "running"]
    /\ lookup = NoLookup

Next == Report

Spec == Init /\ [][Next]_vars

-----------------------------------------------------------------------------
(* HandlerSpec: one press of "Generate Report" in an initialized session,   *)
(* for every answer of the documentation backend                            *)

HandlerInit ==
    /\ run = NoCall([disk |-> NewDisk])
    /\ agent = ReadyAgent
    /\ initialized = TRUE
    /\ widgets = DefaultWidgets
    /\ edits = 0
    /\ out = [NoOutput EXCEPT !.stage = "search"]
    /\ lookup \in {[answer |-> answer, docs |-> <<>>] : answer \in Answers}

HandlerNext ==
    \/ DoSearch
    \/ DoInvoke
    \/ Report

HandlerSpec == HandlerInit /\ [][HandlerNext]_vars

-----------------------------------------------------------------------------
(* AppSpec: a session of the page, from its first script run                *)

AppInit ==
    /\ run = NoCall([disk |-> NewDisk])
    /\ agent = NoAgent
    /\ initialized = FALSE
    /\ widgets = DefaultWidgets
    /\ edits = 0
    /\ out = MainContent(NoOutput, FALSE)
    /\ lookup = NoLookup

AppNext ==
    \/ SubmitForm
    \/ EditField
    \/ ResetToDefaults
    \/ GenerateReportButton
    \/ DoSearch
    \/ DoInvoke
    \/ Report

AppSpec == AppInit /\ [][AppNext]_vars

-----------------------------------------------------------------------------
(* What the claims read off a frame *)

Blocks(f) == f.pdf.blocks

OfKind(f, kinds) == SelectSeq(Blocks(f), LAMBDA b : b.kind \in kinds)

Texts(blocks) == [k \in DOMAIN blocks |-> blocks[k].text]

IsPrefix(s, t) == Len(s) <= Len(t) /\ \A k \in DOMAIN s : s[k] = t[k]

\* the page-building phases of a call with n pillar entries
ExpectedPhases(n) ==
    << Phase("TitlePage", 0), Phase("Summary", 0), Phase("RiskChart", 0) >>
    \o [k \in 1..n |-> Phase("PillarSection", k)]
    \o << Phase("References", 0), Phase("Recommendations", 0), Phase("Finalized", 0) >>

\* the section headers of a document whose pillar sections are `titles`
ExpectedHeaders(titles) ==
    << "Executive Summary", "Risk Assessment Overview" >>
    \o titles
    \o << "Best Practices & References", "Recommendations" >>

EntryTitles(inputs) == [k \in DOMAIN inputs |-> pillar_titles(inputs[k].pillar)]

CatalogTitles ==
    << "Cluster Health", "Cost Optimization", "Security", "Monitoring", "CI/CD", "Others" >>

IsBlank(c) == c.str /\ \A k \in DOMAIN c.chars : IsSpace(c.chars[k])

\* an external operation raises during the call, or a finding is no str
Raises(f) ==
    \/ f.fault # "none"
    \/ \E k \in DOMAIN f.inputs : \E j \in DOMAIN f.inputs[k].data :
          ~f.inputs[k].data[j].content.str

\* C1: a call that reaches the end went through title page, summary, risk
\* chart, one pillar section per pillar entry in order, references,
\* recommendations and finalization, each exactly once and in this order
\* (at any moment the phases entered so far are a prefix of that list, and
\* the finished document carries the sections' headers in that order); the
\* artifact is written in the finalization phase only.
C1_PhaseOrder ==
    /\ IsPrefix(run.phases, ExpectedPhases(Len(run.inputs)))
    /\ run.pc = "Finalized" =>
          /\ run.phases = ExpectedPhases(Len(run.inputs))
          /\ Texts(OfKind(run, {"header"})) = ExpectedHeaders(EntryTitles(run.inputs))
    /\ (run.wrote \/ run.disk.report) =>
          /\ run.pc = "Finalized"
          /\ run.phases[Len(run.phases) - 1] = Phase("Recommendations", 0)

C1_Witness ==
    /\ run.pc = "Finalized"
    /\ Len(run.inputs) = Len(PillarKeys)
    /\ run.disk.report

\* C2: when the call has returned, risk_chart.png is not on disk.
C2_ChartRemovedOnEveryExit == Returned(run) => ~run.disk.chart

\* C3: when rendering the chart image fails the call still goes through the
\* pillar sections, the references and the recommendations and returns the
\* finished artifact.
C3_RenderFailureDegrades ==
    (Returned(run) /\ run.fault = "render" /\ ~\E k \in DOMAIN run.inputs :
            \E j \in DOMAIN run.inputs[k].data : ~run.inputs[k].data[j].content.str)
    => /\ run.pc = "Finalized"
       /\ run.result = PdfOutput
       /\ run.phases = ExpectedPhases(Len(run.inputs))

\* C4: the call returns the path eks_review_report.pdf exactly when no step
\* up to and including the writing of the artifact failed; otherwise it ends
\* failed, returns None, and the page offers no download.
C4_PathIffSuccess ==
    /\ run.result \in {None, PdfOutput}
    /\ run.result = PdfOutput <=> (run.pc = "Finalized" /\ run.wrote)
    /\ run.result = PdfOutput =>
          ~Raises(run) /\ ~run.error /\ run.phases = ExpectedPhases(Len(run.inputs))
    /\ Returned(run) => (Raises(run) <=> run.pc = "Failed")
    /\ run.pc = "Failed" => run.result = None /\ run.error /\ ~run.wrote /\ ~out.download
    /\ out.stage \in {"docs", "shown"} => (out.download <=> run.result = PdfOutput)
    /\ out.stage \in {"docs", "shown"} /\ run.pc = "Failed"
          => "Failed to generate report" \in out.messages

C4_Witness ==
    /\ out.stage \in {"docs", "shown"}
    /\ run.pc = "Failed"
    /\ run.fault = "write"
    /\ run.phases = ExpectedPhases(Len(run.inputs))

\* C5: whatever pillars the snapshot holds and in whatever order, the
\* finished document has exactly one section per pillar of the 6-pillar
\* catalog, in catalog order.
C5_OneSectionPerCatalogPillar ==
    run.pc = "Finalized" =>
        Texts(OfKind(run, {"header"})) = ExpectedHeaders(CatalogTitles)

\* C6: rendering a field whose finding is empty or whitespace-only leaves
\* the document as it was.
C6_BlankFieldIsNoOp ==
    PillarsLeft(run) =>
        \A j \in DOMAIN run.inputs[run.i + 1].data :
            LET item == run.inputs[run.i + 1].data[j]
            IN  IsBlank(item.content) =>
                    RenderFields(run.pdf, <<item>>) = [ok |-> TRUE, pdf |-> run.pdf]

IsComplete(inputs) == [k \in DOMAIN inputs |-> inputs[k].pillar] = PillarKeys

NoPillarEmpty(inputs) ==
    \A k \in DOMAIN inputs : \E j \in DOMAIN inputs[k].data :
        ~IsBlank(inputs[k].data[j].content)

\* the height of a pillar's fields down to the last printed line: per
\* field a label and 10 mm a line when the finding is not blank, and 5 mm
\* between a field and whatever is printed after it
RECURSIVE PrintedHeight(_)
PrintedHeight(data) ==
    IF data = <<>> THEN 0
    ELSE LET rest == PrintedHeight(Tail(data))
             own  == IF IsBlank(Head(data).content) THEN 0
                     ELSE 10 + 10 * MultiCellLines(Head(data).content.chars)
         IN  IF rest = 0 THEN own ELSE own + 5 + rest

\* the section, header included, ends above the page break
SectionFits(entry) == TopMargin + 10 + PrintedHeight(entry.data) <= PageBreakTrigger

\* the first block of every page after the first
FirstOnPage(f, n) ==
    LET onPage == SelectSeq(Blocks(f), LAMBDA b : b.page = n) IN onPage[1]

\* C7 as stated: a complete snapshot with no empty pillar gives exactly
\* 2 + 6 + 2 pages, whatever the length of the findings.
C7_PageCountExact ==
    (run.pc = "Finalized" /\ IsComplete(run.inputs) /\ NoPillarEmpty(run.inputs))
    => run.pdf.page = 2 + Len(PillarKeys) + 2

\* C7 amended: the finished document has at least 2 + N + 2 pages for the N
\* pillar entries of the snapshot, every pillar section starts a page of its
\* own, and the count is exactly 2 + N + 2 when, and only when, every pillar
\* section fits on one page; a section too long for a page adds pages.
C7_PageCountAtLeast ==
    run.pc = "Finalized" =>
        /\ run.pdf.page >= 2 + Len(run.inputs) + 2
        /\ Len(OfKind(run, {"footer"})) = run.pdf.page
        /\ \A k \in DOMAIN run.inputs :
              \E n \in 3..run.pdf.page :
                  /\ FirstOnPage(run, n).kind = "header"
                  /\ FirstOnPage(run, n).text = pillar_titles(run.inputs[k].pillar)
        /\ (\A k \in DOMAIN run.inputs : SectionFits(run.inputs[k]))
              <=> run.pdf.page = 2 + Len(run.inputs) + 2

C7_Witness ==
    /\ run.pc = "Finalized"
    /\ IsComplete(run.inputs)
    /\ NoPillarEmpty(run.inputs)
    /\ run.pdf.page > 2 + Len(PillarKeys) + 2

\* the Severity Model's colour of a priority
SeverityColor(level) ==
    CASE level = "Critical" -> <<255, 0, 0>>
      [] level = "High"     -> <<255, 165, 0>>
      [] level = "Medium"   -> <<255, 255, 0>>
      [] level = "Low"      -> <<0, 255, 0>>

\* C8: the recommendations section lists the timeframes in chronological
\* order and under each its recommendations in catalog order, whatever their
\* priorities; each line carries its own priority and that priority's
\* colour, so a changed priority changes that line's label and colour only:
\* every line keeps its position and every other line its colour.
C8_RecommendationLines ==
    run.pc = "Finalized" =>
        LET lines == OfKind(run, {"timeframe", "rec"})
            at(t, r) == lines[4 * (t - 1) + 1 + r]
        IN  /\ Len(lines) = 12
            /\ \A t \in 1..3 :
                  /\ at(t, 0).kind = "timeframe"
                  /\ at(t, 0).text = timeframes[t].timeframe
                  /\ at(t, 0).color = Black
                  /\ \A r \in 1..3 :
                        /\ at(t, r).kind = "rec"
                        /\ at(t, r).text = timeframes[t].recommendations[r].rec
                        /\ at(t, r).tag = run.tf[t].recommendations[r].priority
                        /\ at(t, r).color = SeverityColor(at(t, r).tag)
                        /\ at(t, r).page = run.pdf.page
                        /\ run.tf[t].recommendations[r] = timeframes[t].recommendations[r]
                             => at(t, r).color =
                                  SeverityColor(timeframes[t].recommendations[r].priority)
            /\ Texts(SelectSeq(lines, LAMBDA b : b.kind = "timeframe"))
                 = <<"Short Term (3 months)", "Medium Term (6 months)", "Long Term (>6 months)">>

C8_Witness ==
    /\ run.pc = "Finalized"
    /\ run.tf[1].recommendations[1].priority = "Low"
    /\ run.tf[1].recommendations[2].priority = "High"
    /\ OfKind(run, {"rec"})[1].color = <<0, 255, 0>>
    /\ OfKind(run, {"rec"})[2].color = <<255, 165, 0>>

-----------------------------------------------------------------------------
(* What the claims read off the documentation lookup and the session *)

WellFormed(item) == item.type = "dict" /\ BothKeys \subseteq item.keys

Malformed(item) == item.type = "other" \/ (item.type = "dict" /\ ~WellFormed(item))

Normal(item) ==
    IF item.type = "str"
    THEN [type |-> "dict", keys |-> BothKeys, title |-> item.title, url |-> "#"]
    ELSE item

NormalAll(items) == [k \in DOMAIN items |-> Normal(items[k])]

\* search_documentation has returned in this run of the handler
Searched == out.stage \in {"invoke", "running", "docs", "shown"}

\* C9 as stated: the normalised list holds, in input order, the strings as
\* (title, '#') and the well-formed items, every malformed item (another
\* type, or a structured item lacking title or url) is skipped, and no
\* malformed item is displayed.
C9_MalformedSkipped ==
    Searched =>
        /\ lookup.docs =
              NormalAll(SelectSeq(lookup.answer.items, LAMBDA x : ~Malformed(x)))
        /\ out.stage = "shown" =>
              \A k \in DOMAIN out.displayed : out.displayed[k].form = "link"

\* C9, amended: the normalised list holds, in input order, the strings as
\* (title, '#') and every structured item as it came, well-formed or not;
\* only items that are neither are skipped.  The displayed list has one
\* line per normalised item in that order: a link for an item with title and
\* url, the item's plain text for a structured item lacking one of them.
\* An answer that is no list, or a lookup that raises, gives the empty list;
\* only the raising lookup is reported, and the handler goes on in each case.
C9_OnlyNonDictSkipped ==
    /\ Searched =>
          /\ lookup.docs =
                NormalAll(SelectSeq(lookup.answer.items,
                                    LAMBDA x : x.type \in {"str", "dict"}))
          /\ lookup.answer.kind # "list" => lookup.docs = <<>>
          /\ "Documentation search failed" \in out.messages
                <=> lookup.answer.kind = "raise"
    /\ out.stage = "shown" =>
          /\ Len(out.displayed) = Len(lookup.docs)
          /\ \A k \in DOMAIN lookup.docs :
                /\ out.displayed[k].form = "link" <=> WellFormed(lookup.docs[k])
                /\ out.displayed[k].title = lookup.docs[k].title
                /\ out.displayed[k].url = lookup.docs[k].url
                /\ out.displayed[k].keys = lookup.docs[k].keys
          /\ Returned(run)

C9_Witness ==
    /\ out.stage = "shown"
    /\ \E k \in DOMAIN lookup.answer.items : lookup.answer.items[k].type = "other"
    /\ \E k \in DOMAIN out.displayed :
          out.displayed[k].form = "text" /\ "url" \notin out.displayed[k].keys

FormSucceeded(form) ==
    /\ form.submitted
    /\ form.complete
    /\ form.bedrock = "ok"
    /\ form.ares = "ok"

FormErrors ==
    {"Please provide all required credentials", "Failed to initialize Bedrock",
     "Failed to initialize Ares"}

\* the handler of "Generate Report" is running, or generate_report has been
\* called in this session
Compiling == out.stage # "shown" \/ run.pc # "Idle"

\* C10: the report handler runs, and generate_report is called, only while
\* the session's initialized flag is true; the flag turns true only in a
\* submission with all four credentials filled in and both initialisations
\* succeeding, so both clients are set whenever it is true; a submission
\* with a missing credential or a failed initialisation shows an error,
\* starts no compilation in its run and leaves the flag as it was.
C10_GatedOnInitialized ==
    /\ [](Compiling => initialized)
    /\ [](initialized => agent.bedrock # None /\ agent.ares_tool # None)
    /\ []((out.form.submitted /\ ~FormSucceeded(out.form)) =>
              /\ out.messages \cap FormErrors # {}
              /\ out.stage = "shown"
              /\ ~out.download)
    /\ [][(~initialized /\ initialized') =>
              FormSucceeded(out'.form) /\ "Successfully initialized!" \in out'.messages]_vars
    /\ [][(out'.form.submitted /\ ~FormSucceeded(out'.form)) =>
              initialized' = initialized /\ run'.pc = "Idle"]_vars
    /\ [][(run' # run /\ out'.stage # "shown") => initialized]_vars

C10_Witness ==
    /\ initialized
    /\ agent = ReadyAgent
    /\ run.pc = "Finalized"
    /\ out.download
    /\ edits > 0

-----------------------------------------------------------------------------
(* What the claims read off the text colour *)

\* the blocks that are printed in a colour of their own
Coloured == {"rec", "link"}

\* the document as the recommendations section finds it, its header printed
RecommendationsTop(f) == SectionHeader(add_page(f.pdf), "Recommendations")

\* the document after the header of timeframe t and its first n lines
AfterLine(f, t, n) ==
    RenderRecs(cell(RecommendationsTop(f), 10, "timeframe", f.tf[t].timeframe, ""),
               SubSeq(f.tf[t].recommendations, 1, n))

\* C11 as stated: after each recommendation line the current text colour is
\* black again, before anything else happens.
C11_ResetAfterEachLine ==
    run.pc = "References" =>
        \A t \in DOMAIN run.tf : \A n \in DOMAIN run.tf[t].recommendations :
            AfterLine(run, t, n).text_color = Black

\* C11, amended: the text colour is reset to black once per timeframe, after
\* the timeframe's last recommendation line; after a line it is still that
\* line's priority colour.  The recommendations section stays on the page it
\* starts, so nothing is printed between a line and the reset, and every
\* block other than a recommendation line or a reference link (section
\* header, timeframe header, label, paragraph, image, every page footer) is
\* printed in black; between two statement blocks of the call the current
\* colour is black.
C11_ResetPerTimeframe ==
    /\ run.pdf.text_color = Black
    /\ \A k \in DOMAIN Blocks(run) :
          Blocks(run)[k].kind \notin Coloured => Blocks(run)[k].color = Black
    /\ run.pc = "References" =>
          /\ \A t \in DOMAIN run.tf : \A n \in DOMAIN run.tf[t].recommendations :
                AfterLine(run, t, n).text_color
                    = SeverityColor(run.tf[t].recommendations[n].priority)
          /\ \A t \in DOMAIN run.tf :
                RenderTimeframes(RecommendationsTop(run), <<run.tf[t]>>).text_color = Black
          /\ RenderTimeframes(RecommendationsTop(run), run.tf).page
                = RecommendationsTop(run).page
    /\ run.pc \in {"Recommendations", "Finalized"} =>
          \A k \in DOMAIN Blocks(run) :
              Blocks(run)[k].kind \in {"rec", "timeframe"} =>
                  Blocks(run)[k].page = run.pdf.page

C11_Witness ==
    /\ run.pc = "Finalized"
    /\ \E i, j \in DOMAIN Blocks(run) :
          /\ i < j
          /\ Blocks(run)[i].kind = "rec" /\ Blocks(run)[i].color # Black
          /\ Blocks(run)[j].kind = "timeframe" /\ Blocks(run)[j].color = Black
    /\ Blocks(run)[Len(Blocks(run))].kind = "footer"
    /\ \E k \in DOMAIN Blocks(run) :
          Blocks(run)[k].kind = "footer" /\ Blocks(run)[k].page < 3 + Len(run.inputs)
             /\ k > 1 /\ Blocks(run)[k - 1].kind = "para" /\ Blocks(run)[k - 1].page = Blocks(run)[k].page

====
